---- MODULE Spec2Model ----
(***************************************************************************)
(* Model of the log-analyzer repository.                                   *)
(*                                                                         *)
(*   src/log_analyzer.py               free-form filter workflow:          *)
(*       match_line, analyze_logs, normalize_error, print_summary          *)
(*   src/src/log_analyzer/patterns.py  DEFAULT_PATTERNS                    *)
(*   src/src/log_analyzer/analyzer.py  analyze_lines, summary              *)
(*   src/src/log_analyzer/cli.py       main (ranked tag summary)           *)
(*                                                                         *)
(* A Python str is a sequence of one-character strings, so that lower(),   *)
(* `in`, re.sub and re.search are computed character by character.         *)
(***************************************************************************)
EXTENDS Integers, Sequences, FiniteSets, TLC

(***************************************************************************)
(* Characters.                                                             *)
(***************************************************************************)

\* The printable ASCII characters in code-point order: 32 (space) .. 95, and
\* 97 .. 126 (the grave accent, 96, cannot be written in a TLA+ string).
AsciiLow ==
  <<" ","!","\"","#","$","%","&","'","(",")","*","+",",","-",".","/",
    "0","1","2","3","4","5","6","7","8","9",":",";","<","=",">","?","@",
    "A","B","C","D","E","F","G","H","I","J","K","L","M","N","O","P","Q",
    "R","S","T","U","V","W","X","Y","Z","[","\\","]","^","_">>

AsciiHigh ==
  <<"a","b","c","d","e","f","g","h","i","j","k","l","m","n","o","p","q",
    "r","s","t","u","v","w","x","y","z","{","|","}","~">>

Chars ==
  {AsciiLow[i] : i \in 1..Len(AsciiLow)}
    \cup {AsciiHigh[i] : i \in 1..Len(AsciiHigh)}
    \cup {"\t", "\n"}

\* ord(c): the code point, the order Python compares strings by.
Ord ==
  [c \in Chars |->
     IF c = "\t" THEN 9
     ELSE IF c = "\n" THEN 10
     ELSE IF \E i \in 1..Len(AsciiLow) : AsciiLow[i] = c
          THEN 31 + (CHOOSE i \in 1..Len(AsciiLow) : AsciiLow[i] = c)
          ELSE 96 + (CHOOSE i \in 1..Len(AsciiHigh) : AsciiHigh[i] = c)]

IsUpper(c) == Ord[c] >= 65 /\ Ord[c] <= 90

\* str.lower() on one character.
LowerOf == [c \in Chars |-> IF IsUpper(c) THEN AsciiHigh[Ord[c] + 32 - 96] ELSE c]

\* \d
Digits == {"0","1","2","3","4","5","6","7","8","9"}

IsDigit(c) == c \in Digits

\* [0-9a-fA-F]
HexDigits == Digits \cup {"a","b","c","d","e","f","A","B","C","D","E","F"}

IsHexDigit(c) == c \in HexDigits

\* \w : letters, digits and the underscore.
WordChars ==
  Digits \cup {"_"}
    \cup {c \in Chars : (Ord[c] >= 65 /\ Ord[c] <= 90)
                         \/ (Ord[c] >= 97 /\ Ord[c] <= 122)}

IsWordChar(c) == c \in WordChars

\* \s
Spaces == {" ", "\t", "\n"}

IsSpace(c) == c \in Spaces

(***************************************************************************)
(* Strings.                                                                *)
(***************************************************************************)

\* Python's None.  No str equals it: a str holds one-character strings only.
None == <<"None">>

\* bool(v) of an Optional[str]: None and "" are falsy.
Truthy(v) == v # None /\ v # <<>>

\* s.lower()
lower(s) == [i \in 1..Len(s) |-> LowerOf[s[i]]]

\* w in s
In(w, s) ==
  \E i \in 0..(Len(s) - Len(w)) : \A j \in 1..Len(w) : s[i + j] = w[j]

\* a < b on str: lexicographic by code point.
RECURSIVE StrLess(_, _)
StrLess(a, b) ==
  IF b = <<>> THEN FALSE
  ELSE IF a = <<>> THEN TRUE
  ELSE IF Ord[Head(a)] # Ord[Head(b)] THEN Ord[Head(a)] < Ord[Head(b)]
  ELSE StrLess(Tail(a), Tail(b))

\* The end of the longest run of characters of the class cls that starts at
\* position i of s (i - 1 when s[i] is not of the class): a greedy [cls]+.
RECURSIVE RunEnd(_, _, _)
RunEnd(s, i, cls) ==
  IF i <= Len(s) /\ s[i] \in cls THEN RunEnd(s, i + 1, cls) ELSE i - 1

\* \b between s[i] and s[i+1] (i = 0: the start, i = Len(s): the end).
Boundary(s, i) ==
  LET before == i >= 1 /\ IsWordChar(s[i])
      after  == i + 1 <= Len(s) /\ IsWordChar(s[i + 1])
  IN  before # after

(***************************************************************************)
(* normalize_error, src/log_analyzer.py:101-117                            *)
(***************************************************************************)

TriggerWords ==
  { <<"e","r","r","o","r">>,
    <<"f","a","i","l","e","d">>,
    <<"e","x","c","e","p","t","i","o","n">>,
    <<"w","a","r","n","i","n","g">> }

HEX == <<"<","H","E","X",">">>
NUM == <<"<","N","U","M",">">>

\* re.sub(r"0x[0-9a-fA-F]+", "<HEX>", s), scanning from position i.
RECURSIVE SubHex(_, _)
SubHex(s, i) ==
  IF i > Len(s) THEN <<>>
  ELSE IF /\ i + 2 <= Len(s)
          /\ s[i] = "0"
          /\ s[i + 1] = "x"
          /\ IsHexDigit(s[i + 2])
       THEN HEX \o SubHex(s, RunEnd(s, i + 2, HexDigits) + 1)
       ELSE <<s[i]>> \o SubHex(s, i + 1)

\* re.sub(r"\b\d+\b", "<NUM>", s), scanning from position i.  \d+ is greedy
\* and a shorter run never ends at a \b, so only the whole run can match.
RECURSIVE SubNum(_, _)
SubNum(s, i) ==
  IF i > Len(s) THEN <<>>
  ELSE IF /\ IsDigit(s[i])
          /\ Boundary(s, i - 1)
          /\ Boundary(s, RunEnd(s, i, Digits))
       THEN NUM \o SubNum(s, RunEnd(s, i, Digits) + 1)
       ELSE <<s[i]>> \o SubNum(s, i + 1)

\* re.sub(r"\s+", " ", s), scanning from position i.
RECURSIVE SubSpace(_, _)
SubSpace(s, i) ==
  IF i > Len(s) THEN <<>>
  ELSE IF IsSpace(s[i])
       THEN <<" ">> \o SubSpace(s, RunEnd(s, i, Spaces) + 1)
       ELSE <<s[i]>> \o SubSpace(s, i + 1)

\* s.strip()
RECURSIVE strip(_)
strip(s) ==
  IF s = <<>> THEN s
  ELSE IF IsSpace(Head(s)) THEN strip(Tail(s))
  ELSE IF IsSpace(s[Len(s)]) THEN strip(SubSeq(s, 1, Len(s) - 1))
  ELSE s

HasTrigger(line) == \E word \in TriggerWords : In(word, lower(line))

\* A variant that lower-cases the whole line, not only the copy the gate reads.
normalize_error_lower(line) ==
  IF ~HasTrigger(line) THEN None
  ELSE strip(SubSpace(SubNum(SubHex(lower(line), 1), 1), 1))

\* A variant that leaves the decimal integers in place.
normalize_error_nonum(line) ==
  IF ~HasTrigger(line) THEN None
  ELSE strip(SubSpace(SubHex(line, 1), 1))

normalize_error(line) ==
  IF ~HasTrigger(line) THEN None
  ELSE strip(SubSpace(SubNum(SubHex(line, 1), 1), 1))

(***************************************************************************)
(* re.compile and Pattern.search for the user's --regex text,              *)
(* src/log_analyzer.py:69 and :53.  The pattern language modelled is       *)
(* literal characters grouped by parentheses, compiled with re.IGNORECASE. *)
(***************************************************************************)

\* What re.compile raises (re.error) is modelled as a value no pattern equals.
CompileError == <<"re.error">>

\* The nesting depth after each prefix of text, or -1 once a ")" closes
\* nothing ("unbalanced parenthesis").
RECURSIVE ParenDepth(_, _, _)
ParenDepth(text, i, depth) ==
  IF depth < 0 \/ i > Len(text) THEN depth
  ELSE IF text[i] = "(" THEN ParenDepth(text, i + 1, depth + 1)
  ELSE IF text[i] = ")" THEN ParenDepth(text, i + 1, depth - 1)
  ELSE ParenDepth(text, i + 1, depth)

\* A variant that never raises: the parentheses are dropped unchecked.
re_compile_lenient(text) == SelectSeq(text, LAMBDA c : c \notin {"(", ")"})

\* re.compile(text, re.IGNORECASE): the compiled pattern is the literal the
\* groups spell; an unclosed "(" or a stray ")" raises.
re_compile(text) ==
  IF ParenDepth(text, 1, 0) # 0 THEN CompileError
  ELSE SelectSeq(text, LAMBDA c : c \notin {"(", ")"})

\* regex.search(line) under re.IGNORECASE.
search(regex, line) == In(lower(regex), lower(line))

(***************************************************************************)
(* match_line, src/log_analyzer.py:39-56                                   *)
(***************************************************************************)
\* A variant that tests the first supplied criterion only (if / elif).
match_line_first_only(line, keyword, regex, severity) ==
  IF Truthy(keyword) THEN In(lower(keyword), lower(line))
  ELSE IF Truthy(severity) THEN In(lower(severity), lower(line))
  ELSE IF regex # None THEN search(regex, line)
  ELSE TRUE

match_line(line, keyword, regex, severity) ==
  IF Truthy(keyword) /\ ~In(lower(keyword), lower(line)) THEN FALSE
  ELSE IF Truthy(severity) /\ ~In(lower(severity), lower(line)) THEN FALSE
  ELSE IF regex # None /\ ~search(regex, line) THEN FALSE
  ELSE TRUE

(***************************************************************************)
(* Counter / dict: a sequence of [key, n] in insertion order.              *)
(***************************************************************************)

\* counter[key], 0 for a missing key.
CountOf(counter, key) ==
  IF \E i \in 1..Len(counter) : counter[i].key = key
  THEN counter[CHOOSE i \in 1..Len(counter) : counter[i].key = key].n
  ELSE 0

\* A variant that assigns instead of adding: counter[key] = 1.
CounterIncr_assign(counter, key) ==
  IF \E i \in 1..Len(counter) : counter[i].key = key
  THEN [i \in 1..Len(counter) |->
          IF counter[i].key = key THEN [key |-> key, n |-> 1] ELSE counter[i]]
  ELSE Append(counter, [key |-> key, n |-> 1])

\* counter[key] += 1   (also out[key] = out.get(key, 0) + 1)
CounterIncr(counter, key) ==
  IF \E i \in 1..Len(counter) : counter[i].key = key
  THEN [i \in 1..Len(counter) |->
          IF counter[i].key = key
          THEN [key |-> key, n |-> counter[i].n + 1]
          ELSE counter[i]]
  ELSE Append(counter, [key |-> key, n |-> 1])

\* The sort key: by descending count only (byKey = FALSE, Counter.most_common)
\* or by (-count, key) (byKey = TRUE, cli.py:18).
SortsBefore(a, b, byKey) ==
  \/ a.n > b.n
  \/ byKey /\ a.n = b.n /\ StrLess(a.key, b.key)

\* sorted(items, key = ...): Python's sort is stable, so an item goes after
\* every earlier item it does not sort before.
RECURSIVE Sorted(_, _)
Sorted(items, byKey) ==
  IF items = <<>> THEN <<>>
  ELSE LET rest == Sorted(SubSeq(items, 1, Len(items) - 1), byKey)
           last == items[Len(items)]
           k    == Cardinality({i \in 1..Len(rest) :
                                  ~SortsBefore(last, rest[i], byKey)})
       IN  SubSeq(rest, 1, k) \o <<last>> \o SubSeq(rest, k + 1, Len(rest))

\* s[:n] for n >= 0, and what heapq.nlargest gives for n <= 0: nothing.
Take(s, n) ==
  IF n <= 0 THEN <<>> ELSE IF n >= Len(s) THEN s ELSE SubSeq(s, 1, n)

\* Counter.most_common(n), n an int.
most_common(counter, n) == Take(Sorted(counter, FALSE), n)

\* print_summary, src/log_analyzer.py:120-130: the "[{count}x] {msg}" entries
\* printed, in order.
print_summary(counter, top_n) ==
  IF counter = <<>> THEN <<>> ELSE most_common(counter, top_n)

(***************************************************************************)
(* DEFAULT_PATTERNS, analyze_lines, summary                                *)
(***************************************************************************)

ERROR_TAG == <<"E","R","R","O","R">>
WARNING_TAG == <<"W","A","R","N","I","N","G">>
AUTH_FAIL_TAG == <<"A","U","T","H","_","F","A","I","L">>

\* patterns.py:3-7.  Each regex is \b(w1|w2|...)\b with re.IGNORECASE: rx is
\* the set of alternatives.  A dict keeps its insertion order.
DEFAULT_PATTERNS ==
  << [tag |-> ERROR_TAG,
      rx  |-> { <<"e","r","r","o","r">>,
                <<"f","a","i","l","e","d">>,
                <<"f","a","i","l","u","r","e">>,
                <<"c","r","i","t","i","c","a","l">>,
                <<"p","a","n","i","c">> }],
     [tag |-> WARNING_TAG,
      rx  |-> { <<"w","a","r","n">>,
                <<"w","a","r","n","i","n","g">>,
                <<"d","e","p","r","e","c","a","t","e","d">>,
                <<"r","e","t","r","y">> }],
     [tag |-> AUTH_FAIL_TAG,
      rx  |-> { <<"f","a","i","l","e","d"," ","p","a","s","s","w","o","r","d">>,
                <<"a","u","t","h","e","n","t","i","c","a","t","i","o","n"," ",
                  "f","a","i","l","u","r","e">>,
                <<"i","n","v","a","l","i","d"," ","u","s","e","r">> }] >>

\* rx.search(line) for rx = \b(alt|...)\b, re.IGNORECASE.
rx_search(rx, line) ==
  LET low == lower(line)
  IN  \E alt \in rx :
        \E i \in 0..(Len(line) - Len(alt)) :
          /\ Boundary(line, i)
          /\ \A j \in 1..Len(alt) : low[i + j] = alt[j]
          /\ Boundary(line, i + Len(alt))

\* line.rstrip("\n")
RECURSIVE rstrip_nl(_)
rstrip_nl(line) ==
  IF line # <<>> /\ line[Len(line)] = "\n"
  THEN rstrip_nl(SubSeq(line, 1, Len(line) - 1))
  ELSE line

\* analyzer.py:15-17, the inner loop for line number i: one Match per pattern
\* that finds the line, in the order of patterns.items().
RECURSIVE MatchesOfLine(_, _, _, _)
MatchesOfLine(i, line, patterns, p) ==
  IF p > Len(patterns) THEN <<>>
  ELSE (IF rx_search(patterns[p].rx, line)
        THEN << [line_no |-> i, tag |-> patterns[p].tag,
                 line |-> rstrip_nl(line)] >>
        ELSE <<>>)
       \o MatchesOfLine(i, line, patterns, p + 1)

\* A variant that puts the new records in front: results.insert(0, ...).
analyze_line_prepend(results, i, line, patterns) ==
  MatchesOfLine(i, line, patterns, 1) \o results

\* A variant that stops at the first pattern that matches (a break).
analyze_line_first(results, i, line, patterns) ==
  results \o Take(MatchesOfLine(i, line, patterns, 1), 1)

\* analyzer.py:14-17: one iteration of the outer loop.
analyze_line(results, i, line, patterns) ==
  results \o MatchesOfLine(i, line, patterns, 1)

\* A variant that counts a line once, under the first tag it matched.
RECURSIVE summary_per_line(_)
summary_per_line(matches) ==
  IF matches = <<>> THEN <<>>
  ELSE LET front == SubSeq(matches, 1, Len(matches) - 1)
           last  == matches[Len(matches)]
       IN  IF front # <<>> /\ front[Len(front)].line_no = last.line_no
           THEN summary_per_line(front)
           ELSE CounterIncr(summary_per_line(front), last.tag)

\* analyzer.py:20-24
RECURSIVE summary(_)
summary(matches) ==
  IF matches = <<>> THEN <<>>
  ELSE CounterIncr(summary(SubSeq(matches, 1, Len(matches) - 1)),
                   matches[Len(matches)].tag)

(***************************************************************************)
(* Inputs.                                                                 *)
(***************************************************************************)

\* How many lines a run of analyze_logs reads at most.
MaxLines == 3

\* How many lines the file given to analyze_lines has at most.
MaxFileLines == 4

\* How many tokens a generated line has at most.
MaxToks == 3

\* --top: its default (log_analyzer.py:166), and --show: its default
\* (cli.py:8).
DefaultTop == 5
DefaultShow == 20

L_info   == <<"I","N","F","O"," ","s","t","a","r","t">>
L_err404 == <<"E","R","R","O","R"," ","d","i","s","k"," ","f","a","i","l","e","d"," ","4","0","4">>
L_warn   == <<"W","A","R","N","I","N","G"," ","r","e","t","r","y"," ","4","0","4">>
L_err500 == <<"E","R","R","O","R"," ","d","i","s","k"," ","f","a","i","l","e","d"," ","5","0","0">>
L_sevErr == <<"2","0","2","4","-","0","1","-","0","1"," ","E","R","R","O","R"," ","d","i","s","k"," ","f","u","l","l">>
L_sevInf == <<"2","0","2","4","-","0","1","-","0","1"," ","I","N","F","O"," ","d","i","s","k"," ","f","u","l","l">>
L_auth   == <<"F","a","i","l","e","d"," ","p","a","s","s","w","o","r","d"," ","f","o","r"," ","r","o","o","t">>
L_hex    == <<"E","r","r","o","r"," ","0","x","1","F"," ","a","t"," ","l","i","n","e"," ","4","2">>

\* The lines the log file of analyze_logs is made of.
LogLines == {L_info, L_err404, L_err500, L_sevErr, L_sevInf}

\* The lines the log file of analyze_lines is made of.
FileLines == {L_info, L_err404, L_warn, L_err500, L_auth}

\* A generated line is a sequence of tokens: a word, a decimal integer, a hex
\* literal or a whitespace run.  TokenText gives the texts a token stands for.
TokenKinds == {"error", "at", "NUM", "HEX", "WS"}

TokenText ==
  [k \in TokenKinds \cup {"ERROR", "disk", "failed"} |->
     CASE k = "error"  -> { <<"e","r","r","o","r">> }
       [] k = "at"     -> { <<"a","t">> }
       [] k = "NUM"    -> { <<"4","0","4">>, <<"5","0","0">> }
       [] k = "HEX"    -> { <<"0","x","1","F">>, <<"0","x","e">> }
       [] k = "WS"     -> { <<" ">>, <<"\t"," ">> }
       [] k = "ERROR"  -> { <<"E","R","R","O","R">> }
       [] k = "disk"   -> { <<"d","i","s","k">> }
       [] k = "failed" -> { <<"f","a","i","l","e","d">> }]

\* "ERROR disk failed 404" and its variants.
DiskFailed == <<"ERROR", "WS", "disk", "WS", "failed", "WS", "NUM">>

Templates == UNION {[1..n -> TokenKinds] : n \in 1..MaxToks}

\* Every line a template stands for.
RECURSIVE Inst(_)
Inst(t) ==
  IF t = <<>> THEN {<<>>}
  ELSE {a \o b : a \in TokenText[Head(t)], b \in Inst(Tail(t))}

GeneratedLines == UNION {Inst(t) : t \in Templates}

NormInputs == GeneratedLines \cup {L_hex, L_err404, L_info}

Keywords == {None, <<"D","I","S","K">>}
Severities == {None, <<"E","R","R","O","R">>}
RegexTexts ==
  { None, <<>>,
    <<"(","F","A","I","L",")","e","d">>,
    <<"(","d","i","s","k">>,
    <<"d","i","s","k",")">> }
TopNs == {0, 1, DefaultTop}
Shows == {1, DefaultShow}

(***************************************************************************)
(* State.                                                                  *)
(***************************************************************************)
VARIABLES
  pc,             \* where the running program is
  source,         \* the lines the input stream can yield
  tmpl,           \* the template the lines of source were generated from
  limit,          \* how many lines the input stream holds at most
  consumed,       \* the lines read from the stream so far
  keyword,        \* analyze_logs: --keyword
  severity,       \* analyze_logs: --severity
  regex_pattern,  \* analyze_logs: --regex
  regex,          \* analyze_logs: the compiled regex
  total_lines,    \* analyze_logs
  matched_lines,  \* analyze_logs
  error_counter,  \* analyze_logs
  accepts,        \* analyze_logs: what match_line returned, per line read
  printed,        \* analyze_logs: the matching lines printed
  show_summary,   \* --summary, of either program
  summary_out,    \* print_summary: the entries printed
  results,        \* analyze_lines: the Match records
  tag_summary,    \* cli main: s = summary(matches)
  tag_out,        \* cli main: the "tag: count" entries printed
  shown,          \* cli main: matches[:args.show]
  x,              \* a line given to normalize_error
  once,           \* normalize_error(x)
  twice           \* normalize_error(normalize_error(x))

vars ==
  <<pc, source, tmpl, limit, consumed, keyword, severity, regex_pattern, regex,
    total_lines, matched_lines, error_counter, accepts, printed, show_summary,
    summary_out, results, tag_summary, tag_out, shown, x, once, twice>>

logVars ==
  <<keyword, severity, regex_pattern, regex, total_lines, matched_lines,
    error_counter, accepts, printed, summary_out>>
tagVars == <<results, tag_summary, tag_out, shown>>
normVars == <<x, once, twice>>

\* Nothing has run yet.
Fresh ==
  /\ consumed = <<>>
  /\ regex = None
  /\ total_lines = 0
  /\ matched_lines = 0
  /\ error_counter = <<>>
  /\ accepts = <<>>
  /\ printed = <<>>
  /\ show_summary = FALSE
  /\ summary_out = <<>>
  /\ results = <<>>
  /\ tag_summary = <<>>
  /\ tag_out = <<>>
  /\ shown = <<>>
  /\ once = None
  /\ twice = None

(***************************************************************************)
(* analyze_logs, src/log_analyzer.py:59-94                                 *)
(***************************************************************************)

\* Line 69, the pattern compiles (or there is none): the loop starts.
CompileOk ==
  /\ pc = "start"
  /\ ~Truthy(regex_pattern) \/ re_compile(regex_pattern) # CompileError
  /\ regex' = IF Truthy(regex_pattern) THEN re_compile(regex_pattern) ELSE None
  /\ pc' = "loop"
  /\ UNCHANGED <<source, tmpl, limit, consumed, keyword, severity, regex_pattern,
                 total_lines, matched_lines, error_counter, accepts, printed,
                 show_summary, summary_out>>
  /\ UNCHANGED tagVars
  /\ UNCHANGED normVars

\* Line 69, re.compile raises: analyze_logs is left by the exception.
CompileFail ==
  /\ pc = "start"
  /\ Truthy(regex_pattern)
  /\ re_compile(regex_pattern) = CompileError
  /\ pc' = "error"
  /\ UNCHANGED <<source, tmpl, limit, consumed, show_summary>>
  /\ UNCHANGED logVars
  /\ UNCHANGED tagVars
  /\ UNCHANGED normVars

\* Lines 77-87: one iteration of the loop, on the next line of the stream.
ProcessLine ==
  /\ pc = "loop"
  /\ Len(consumed) < limit
  /\ \E line \in source :
       LET accepted   == match_line(line, keyword, regex, severity)
           normalized == normalize_error(line)
       IN  /\ consumed' = Append(consumed, line)
           /\ total_lines' = total_lines + 1
           /\ accepts' = Append(accepts, accepted)
           /\ matched_lines' = IF accepted THEN matched_lines + 1
                               ELSE matched_lines
           /\ printed' = IF accepted THEN Append(printed, line) ELSE printed
           /\ error_counter' = IF accepted /\ Truthy(normalized)
                               THEN CounterIncr(error_counter, normalized)
                               ELSE error_counter
  /\ UNCHANGED <<pc, source, tmpl, limit, keyword, severity, regex_pattern, regex,
                 show_summary, summary_out>>
  /\ UNCHANGED tagVars
  /\ UNCHANGED normVars

\* Lines 89-94: the stream is exhausted.
Finish ==
  /\ pc = "loop"
  /\ \E flag \in BOOLEAN, top_n \in TopNs :
       /\ show_summary' = flag
       /\ summary_out' = IF flag THEN print_summary(error_counter, top_n)
                         ELSE <<>>
  /\ pc' = "done"
  /\ UNCHANGED <<source, tmpl, limit, consumed, keyword, severity, regex_pattern,
                 regex, total_lines, matched_lines, error_counter, accepts,
                 printed>>
  /\ UNCHANGED tagVars
  /\ UNCHANGED normVars

Init ==
  /\ pc = "start"
  /\ source = LogLines
  /\ limit = MaxLines
  /\ tmpl = <<>>
  /\ keyword \in Keywords
  /\ severity \in Severities
  /\ regex_pattern \in RegexTexts
  /\ x = <<>>
  /\ Fresh

Next == CompileOk \/ CompileFail \/ ProcessLine \/ Finish

Spec == Init /\ [][Next]_vars

(***************************************************************************)
(* A stream of two lines, variants of one line, through analyze_logs       *)
(* without a filter.                                                       *)
(***************************************************************************)
InitPair ==
  /\ pc = "start"
  /\ tmpl \in {t \in Templates : \E i \in 1..Len(t) : t[i] = "error"}
               \cup {DiskFailed}
  /\ \E a \in Inst(tmpl), b \in Inst(tmpl) : source = {a, b}
  /\ limit = 2
  /\ keyword = None
  /\ severity = None
  /\ regex_pattern = None
  /\ x = <<>>
  /\ Fresh

NextPair == CompileOk \/ ProcessLine \/ Finish

SpecPair == InitPair /\ [][NextPair]_vars

(***************************************************************************)
(* cli main over analyze_lines, src/src/log_analyzer/cli.py:12-22          *)
(***************************************************************************)

\* analyzer.py:14-17: the next line of the file.  Iterating a file yields
\* each line with its "\n"; only the last line of the file can lack it.
AnalyzeLine ==
  /\ pc = "lines"
  /\ Len(consumed) < limit
  /\ \E raw \in source, eol \in {<<>>, <<"\n">>} :
       LET line == raw \o eol
       IN  /\ consumed' = Append(consumed, line)
           /\ results' = analyze_line(results, Len(consumed) + 1, line,
                                      DEFAULT_PATTERNS)
           /\ pc' = IF eol = <<>> THEN "eof" ELSE "lines"
  /\ UNCHANGED <<source, tmpl, limit, show_summary, tag_summary, tag_out, shown>>
  /\ UNCHANGED logVars
  /\ UNCHANGED normVars

\* cli.py:16-22: the file is exhausted, the report is printed.
Report ==
  /\ pc \in {"lines", "eof"}
  /\ \E flag \in BOOLEAN, show \in Shows :
       /\ show_summary' = flag
       /\ tag_summary' = IF flag THEN summary(results) ELSE <<>>
       /\ tag_out' = IF flag THEN Sorted(summary(results), TRUE) ELSE <<>>
       /\ shown' = Take(results, show)
  /\ pc' = "done"
  /\ UNCHANGED <<source, tmpl, limit, consumed, results>>
  /\ UNCHANGED logVars
  /\ UNCHANGED normVars

InitTags ==
  /\ pc = "lines"
  /\ source = FileLines
  /\ limit = MaxFileLines
  /\ tmpl = <<>>
  /\ keyword = None
  /\ severity = None
  /\ regex_pattern = None
  /\ x = <<>>
  /\ Fresh

NextTags == AnalyzeLine \/ Report

SpecTags == InitTags /\ [][NextTags]_vars

(***************************************************************************)
(* normalize_error applied, and applied again to its result.               *)
(***************************************************************************)
Normalize ==
  /\ pc = "norm"
  /\ once' = normalize_error(x)
  /\ pc' = "normalized"
  /\ UNCHANGED <<source, tmpl, limit, consumed, show_summary, x, twice>>
  /\ UNCHANGED logVars
  /\ UNCHANGED tagVars

Renormalize ==
  /\ pc = "normalized"
  /\ Truthy(once)
  /\ twice' = normalize_error(once)
  /\ pc' = "renormalized"
  /\ UNCHANGED <<source, tmpl, limit, consumed, show_summary, x, once>>
  /\ UNCHANGED logVars
  /\ UNCHANGED tagVars

InitNorm ==
  /\ pc = "norm"
  /\ source = {}
  /\ limit = 0
  /\ tmpl = <<>>
  /\ keyword = None
  /\ severity = None
  /\ regex_pattern = None
  /\ x \in NormInputs
  /\ Fresh

NextNorm == Normalize \/ Renormalize

SpecNorm == InitNorm /\ [][NextNorm]_vars

(***************************************************************************)
(* What the properties are stated with.                                    *)
(***************************************************************************)

\* Two characters that are the same letter in either case, or equal.
SameLetter(a, b) ==
  \/ a = b
  \/ /\ Ord[a] >= 65 /\ Ord[a] <= 90 /\ Ord[b] = Ord[a] + 32
  \/ /\ Ord[b] >= 65 /\ Ord[b] <= 90 /\ Ord[a] = Ord[b] + 32

\* w occurs in s, case-insensitively.
CIContains(w, s) ==
  \E off \in 0..(Len(s) - Len(w)) :
    \A j \in 1..Len(w) : SameLetter(w[j], s[off + j])

\* A criterion of the filter holds of a line: it is absent, or it occurs.
CriterionHolds(criterion, line) ==
  criterion = None \/ CIContains(criterion, line)

\* Every supplied criterion holds of the line.
AllCriteriaHold(line) ==
  /\ CriterionHolds(keyword, line)
  /\ CriterionHolds(severity, line)
  /\ CriterionHolds(regex, line)

SumCounts(counter) ==
  LET RECURSIVE Sum(_)
      Sum(i) == IF i = 0 THEN 0 ELSE counter[i].n + Sum(i - 1)
  IN  Sum(Len(counter))

Keys(counter) == {counter[i].key : i \in 1..Len(counter)}

\* Descending count; equal counts by ascending key.
IsRanked(entries) ==
  \A i, j \in 1..Len(entries) :
    i < j => \/ entries[i].n > entries[j].n
             \/ /\ entries[i].n = entries[j].n
                /\ StrLess(entries[i].key, entries[j].key)

TagAt(p) == DEFAULT_PATTERNS[p].tag
PatternIds == 1..Len(DEFAULT_PATTERNS)

\* The Match records of line number i, in emission order.
MatchesAt(i) == SelectSeq(results, LAMBDA m : m.line_no = i)

\* The (line, tag) pairs such that the tag's pattern finds the line.
MatchPairs ==
  {pr \in (1..Len(consumed)) \X PatternIds :
     rx_search(DEFAULT_PATTERNS[pr[2]].rx, consumed[pr[1]])}

\* Every integer token of the template is delimited by whitespace or an end
\* of the line: it is a standalone integer in every line of the template.
StandaloneNums(t) ==
  \A i \in 1..Len(t) :
    t[i] = "NUM" =>
      /\ i = 1 \/ t[i - 1] \in {"WS", "NUM"}
      /\ i = Len(t) \/ t[i + 1] \in {"WS", "NUM"}

\* Every hex token of the template is a hex literal of its own in every line
\* of the template: it does not start inside the digits of a literal before
\* it ("0x1F" "0xe" reads as the literal 0x1F0 and the text xe).
SeparateHex(t) ==
  \A i \in 2..Len(t) : t[i] = "HEX" => t[i - 1] # "HEX"

\* The lines of the template differ only in the values of standalone
\* integers, the digits of hex literals and the whitespace runs.
Variants(t) == StandaloneNums(t) /\ SeparateHex(t)

K_ErrorHexNum ==
  <<"E","r","r","o","r"," ","<","H","E","X",">"," ","a","t"," ","l","i","n","e"," ","<","N","U","M",">">>
K_errorHexNum ==
  <<"e","r","r","o","r"," ","<","H","E","X",">"," ","a","t"," ","l","i","n","e"," ","<","N","U","M",">">>
K_DiskFailed ==
  <<"E","R","R","O","R"," ","d","i","s","k"," ","f","a","i","l","e","d"," ","<","N","U","M",">">>

(***************************************************************************)
(* Properties.                                                             *)
(***************************************************************************)

\* C1 (SpecNorm): normalization is idempotent: whenever normalize_error(x)
\* returns a key, normalize_error of that key returns the same key.
C1_Idempotent == pc = "renormalized" => twice = once

\* C2 (Spec): every ranked summary printed lists its entries by descending
\* count, equal counts by ascending key, whatever order the keys were first
\* seen in.
C2_RankedSummary ==
  pc = "done" => IsRanked(summary_out) /\ IsRanked(tag_out)

\* C3 as stated (SpecTags): line_no is strictly increasing over consecutive
\* Match records.
C3_StrictlyIncreasing ==
  \A i \in 1..(Len(results) - 1) : results[i].line_no < results[i + 1].line_no

\* C3 as amended (SpecTags): line_no never decreases over consecutive Match
\* records, and two consecutive records with the same line_no are records of
\* one line under different tags.
C3_NonDecreasing ==
  \A i \in 1..(Len(results) - 1) :
    /\ results[i].line_no <= results[i + 1].line_no
    /\ results[i].line_no = results[i + 1].line_no =>
         /\ results[i].tag # results[i + 1].tag
         /\ results[i].line = results[i + 1].line

C3_Witness ==
  \E i, j \in 1..(Len(results) - 1) :
    /\ results[i].line_no = results[i + 1].line_no
    /\ results[j].line_no < results[j + 1].line_no

\* C4 (SpecTags): in the tag summary each tag's count is the number of lines
\* its pattern matches, and the counts add up to the number of (line, tag)
\* match pairs, not of matched lines; the four example lines give ERROR = 2
\* and WARNING = 1.
C4_CountConservation ==
  pc = "done" /\ show_summary =>
    /\ \A p \in PatternIds :
         CountOf(tag_summary, TagAt(p)) =
           Cardinality({i \in 1..Len(consumed) :
                          rx_search(DEFAULT_PATTERNS[p].rx, consumed[i])})
    /\ Keys(tag_summary) \subseteq {TagAt(p) : p \in PatternIds}
    /\ SumCounts(tag_summary) = Cardinality(MatchPairs)
    /\ [i \in 1..Len(consumed) |-> rstrip_nl(consumed[i])]
         = <<L_info, L_err404, L_warn, L_err500>>
       => tag_summary = << [key |-> ERROR_TAG, n |-> 2],
                           [key |-> WARNING_TAG, n |-> 1] >>

\* A file in which one line matches two tags was summarised: more pairs
\* than matched lines.
C4_Witness ==
  /\ pc = "done"
  /\ show_summary
  /\ \E i \in 1..Len(consumed) : Len(MatchesAt(i)) = 2
  /\ \E i \in 1..Len(consumed) : Len(MatchesAt(i)) = 1
  /\ SumCounts(tag_summary) = 3
  /\ Cardinality({i \in 1..Len(consumed) : MatchesAt(i) # <<>>}) = 2

\* C5 (SpecTags): for each line read there is exactly one Match for every tag
\* whose pattern finds the line and none for any other tag, and the records
\* of one line are in registration order: ERROR, WARNING, AUTH_FAIL.
C5_OneMatchPerTag ==
  /\ \A k \in 1..Len(results) : results[k].line_no \in 1..Len(consumed)
  /\ \A i \in 1..Len(consumed) :
       LET ms == MatchesAt(i)
       IN  /\ \A p \in PatternIds :
                Cardinality({k \in 1..Len(ms) : ms[k].tag = TagAt(p)})
                  = IF rx_search(DEFAULT_PATTERNS[p].rx, consumed[i])
                    THEN 1 ELSE 0
           /\ \A k \in 1..Len(ms) : \E p \in PatternIds : ms[k].tag = TagAt(p)
           /\ \A j, k \in 1..Len(ms) :
                j < k => \E p, q \in PatternIds :
                           p < q /\ ms[j].tag = TagAt(p) /\ ms[k].tag = TagAt(q)
           /\ rstrip_nl(consumed[i]) = L_auth =>
                [k \in 1..Len(ms) |-> ms[k].tag] = <<ERROR_TAG, AUTH_FAIL_TAG>>
           /\ rstrip_nl(consumed[i]) = L_info => ms = <<>>

C5_Witness ==
  \E i \in 1..Len(consumed) :
    /\ rstrip_nl(consumed[i]) = L_auth
    /\ Len(MatchesAt(i)) = 2

\* C6 (Spec): match_line accepts a line exactly when every supplied criterion
\* holds of it, case-insensitively; an absent criterion rejects nothing, no
\* criterion at all accepts every line, and severity = "ERROR" alone accepts
\* "2024-01-01 ERROR disk full" and rejects "2024-01-01 INFO disk full".
C6_MatchLine ==
  /\ Len(accepts) = Len(consumed)
  /\ \A i \in 1..Len(consumed) :
       /\ accepts[i] = AllCriteriaHold(consumed[i])
       /\ keyword = None /\ severity = None /\ regex = None => accepts[i]
       /\ keyword = None /\ regex = None /\ severity = <<"E","R","R","O","R">> =>
            /\ consumed[i] = L_sevErr => accepts[i]
            /\ consumed[i] = L_sevInf => ~accepts[i]

\* A filter of all three criteria accepted a line and rejected a line two
\* of the criteria hold of.
C6_Witness ==
  /\ keyword # None /\ severity # None /\ regex # None
  /\ \E i, j \in 1..Len(consumed) :
       /\ accepts[i]
       /\ ~accepts[j]
       /\ CIContains(keyword, consumed[j])
       /\ CIContains(severity, consumed[j])

\* C7 (Spec): analyze_logs folds over the lines: total_lines is the number of
\* lines read, matched_lines the number of lines the filter accepts, each
\* key's count the number of accepted lines normalize_error maps to it,
\* sum of counts <= matched_lines <= total_lines after every line, and an
\* empty input ends with both totals 0 and an empty summary, without error.
C7_Fold ==
  pc \in {"loop", "done"} =>
    LET accepted == {i \in 1..Len(consumed) : AllCriteriaHold(consumed[i])}
        keyOf    == [i \in 1..Len(consumed) |-> normalize_error(consumed[i])]
    IN
    /\ total_lines = Len(consumed)
    /\ matched_lines = Cardinality(accepted)
    /\ \A k \in Keys(error_counter) \cup {keyOf[i] : i \in 1..Len(consumed)} :
         CountOf(error_counter, k) =
           IF Truthy(k)
           THEN Cardinality({i \in accepted : keyOf[i] = k})
           ELSE 0
    /\ \A i, j \in 1..Len(error_counter) :
         error_counter[i].key = error_counter[j].key => i = j
    /\ SumCounts(error_counter) <= matched_lines
    /\ matched_lines <= total_lines
    /\ pc = "done" /\ consumed = <<>> =>
         /\ total_lines = 0
         /\ matched_lines = 0
         /\ error_counter = <<>>
         /\ summary_out = <<>>

\* A finished run that read a rejected line, an accepted line without a key
\* and an accepted line with one.
C7_Witness ==
  /\ pc = "done"
  /\ total_lines = 3
  /\ matched_lines = 2
  /\ SumCounts(error_counter) = 1

\* C8 (Spec): regex text that does not compile ends the run in an error
\* before any line is read: no line consumed, both totals 0, the counter
\* empty; the error never comes after a line was consumed.
C8_FailFast ==
  /\ pc = "error" =>
       /\ consumed = <<>>
       /\ total_lines = 0
       /\ matched_lines = 0
       /\ error_counter = <<>>
       /\ printed = <<>>
  /\ regex_pattern \in { <<"(","d","i","s","k">>, <<"d","i","s","k",")">> } =>
       /\ pc \in {"start", "error"}
       /\ consumed = <<>>
  /\ consumed # <<>> => pc # "error"

C8_Witness ==
  /\ pc = "error"
  /\ regex_pattern = <<"(","d","i","s","k">>

\* C9 as stated (SpecNorm): normalize_error("Error 0x1F at line 42") is
\* "error <HEX> at line <NUM>".
C9_AsStated ==
  pc = "normalized" /\ x = L_hex => once = K_errorHexNum

\* C9 as amended (SpecNorm): normalize_error("Error 0x1F at line 42") is
\* "Error <HEX> at line <NUM>": the hex literal and the integer are masked
\* and the case of the rest is kept.
C9_CaseKept ==
  pc \in {"normalized", "renormalized"} /\ x = L_hex => once = K_ErrorHexNum

C9_Witness == pc = "normalized" /\ x = L_hex

\* C10 (SpecPair): the lines of the stream are variants of one line that has
\* a trigger word: they differ only in the values of their standalone
\* integers, the digits of their hex literals and their whitespace runs.
\* They all get one key, and every accepted one is counted in its bucket;
\* "ERROR disk failed 404" and "ERROR disk failed 500" give one key, count 2.
C10_Collapse ==
  pc \in {"loop", "done"} /\ Variants(tmpl) =>
    /\ \A a, b \in source :
         /\ Truthy(normalize_error(a))
         /\ normalize_error(a) = normalize_error(b)
    /\ consumed # <<>> =>
         error_counter = << [key |-> normalize_error(consumed[1]),
                             n   |-> Len(consumed)] >>
    /\ consumed = <<L_err404, L_err500>> =>
         error_counter = << [key |-> K_DiskFailed, n |-> 2] >>

C10_Witness ==
  /\ pc = "done"
  /\ consumed = <<L_err404, L_err500>>
  /\ error_counter = << [key |-> K_DiskFailed, n |-> 2] >>

====
